---- MODULE Spec2Model ----
(***************************************************************************)
(* RetroSaveSync (src/retrosavesync.py): the SaveSync class that reconciles *)
(* a local save tree with its mirror on the NAS and snapshots overwritten   *)
(* NAS files into a month-keyed backup archive.                             *)
(*                                                                          *)
(* The filesystem is the record fs; a SaveSync object is the variables      *)
(* dry_run, backup_enabled, monthly_backups, pcsx2_enabled and sync_stats.  *)
(* Each method is a pure operator on (filesystem, statistics) and one       *)
(* action applies it.  A relative path is a number of 1..NPaths, numbered   *)
(* in the order sorted() gives the paths.  The trees are those of the PCSX2  *)
(* group; the dolphin group appears in the configuration main() reads.      *)
(*                                                                          *)
(* Spec            one call of any method, on regular files                 *)
(* SpecRepeat      repeated tree reconciliations and snapshots              *)
(* SpecMain        one run of main() on a configuration file                *)
(* SpecExtensions  one tree reconciliation with an extension allow-list     *)
(* SpecProbing     one tree reconciliation in which stat() can fail         *)
(* SpecKinds       one call on trees that hold directories too              *)
(***************************************************************************)
EXTENDS Integers, Sequences, FiniteSets, TLC

\* ---------------------------------------------------------------- bounds
NPaths == 2
MaxTime == 2
MaxMonth == 2
MaxOps == 1
MaxRepeat == 2

Paths == 1..NPaths
Months == 1..MaxMonth
Times == 1..MaxTime

\* ---------------------------------------------------------------- values
\* A regular file: an opaque content tag and its st_mtime.  The tag tells
\* where the bytes were first written: "L" on the local side, "N" on the NAS,
\* "O" an older NAS version kept in the backup archive.
NoFile == [content |-> "none", mtime |-> 0]
LocalVals == {[content |-> "L", mtime |-> t] : t \in Times}
NasVals == {[content |-> "N", mtime |-> t] : t \in Times}
OldVals == {[content |-> "O", mtime |-> 1]}

\* A directory at a relative path: "dir" as found, "dir/L" or "dir/N" once a
\* file with that content has been copied into it under its own name.
DirVals == {[content |-> "dir", mtime |-> t] : t \in Times}

\* The emulator argument: a group name, or None / '' (both falsy).
PCSX2 == "PCSX2"
NoEmulator == ""
Emulators == {PCSX2, NoEmulator}
Directions == {"auto", "upload", "download"}

\* Whether an I/O step of one file raises.  A step that raises does so in its
\* first system call that can: mkdir(parents=True) when the directory is
\* missing, shutil.copy2 before it writes when the directory is there.
Faults == BOOLEAN

VARIABLES
    fs,                \* the filesystem: both trees, the archive, the directories
    month,             \* datetime.now().strftime('%Y-%m'), as a number
    dry_run,           \* self.dry_run
    backup_enabled,    \* self.backup_enabled
    monthly_backups,   \* self.monthly_backups
    pcsx2_enabled,     \* config['emulators']['pcsx2']['enabled']
    sync_stats,        \* self.sync_stats
    ops,               \* calls made on this SaveSync object
    last,              \* the last call: arguments, state before it, outcomes
    prev,              \* the call before it
    twin               \* the same call from the same state with dry_run negated

vars == <<fs, month, dry_run, backup_enabled, monthly_backups, pcsx2_enabled,
          sync_stats, ops, last, prev, twin>>

ZeroStats == [uploaded |-> 0, downloaded |-> 0, skipped |-> 0, errors |-> 0,
              backed_up |-> 0]

Inc(st, k) == [st EXCEPT ![k] = @ + 1]

\* ---------------------------------------------------------------- the code
\* Path.exists() of a file of one tree.
Exists(file) == file # NoFile

\* Path.is_dir() and Path.is_file().
IsDir(file) == file.content \in {"dir", "dir/L", "dir/N"}
IsFile(file) == Exists(file) /\ ~IsDir(file)

\* shutil.copy2(src, dst) when dst is a directory: src is copied to
\* dst/basename(src), and the new entry gives the directory the time of the
\* copy as its mtime.
CopyInto(dir, src) ==
    [content |-> IF src.content = "L" THEN "dir/L" ELSE "dir/N",
     mtime |-> MaxTime + 1]

\* _get_file_mtime: st_mtime, or 0.0 when stat raises FileNotFoundError.
GetFileMtime(file) == IF file = NoFile THEN 0 ELSE file.mtime

\* backup_file.parent.mkdir(parents=True, exist_ok=True)
MkBackupDir(f) == [f EXCEPT !.nasRoot = TRUE, !.bkDirs = @ \cup {month}]

\* nas_path.parent.mkdir(parents=True, exist_ok=True)
MkNasDir(f) == [f EXCEPT !.nasRoot = TRUE, !.nasDir = TRUE]

\* local_path.parent.mkdir(parents=True, exist_ok=True)
MkLocalDir(f) == [f EXCEPT !.localDir = TRUE]

\* Mutant: _create_monthly_backup without the existence check of line 123.
CreateMonthlyBackupNoDedup(f, st, dry, p, emulator, bfault) ==
    LET no == [fs |-> f, stats |-> st, ret |-> FALSE, failed |-> FALSE] IN
    IF ~backup_enabled \/ ~monthly_backups THEN no
    ELSE IF ~Exists(f.nas[p]) THEN no
    ELSE IF emulator = NoEmulator THEN no
    ELSE IF dry
        THEN [fs |-> f, stats |-> Inc(st, "backed_up"), ret |-> TRUE, failed |-> FALSE]
    ELSE IF bfault THEN [no EXCEPT !.failed = TRUE]
    ELSE [fs |-> [MkBackupDir(f) EXCEPT !.backups[month][p] = f.nas[p]],
          stats |-> Inc(st, "backed_up"), ret |-> TRUE, failed |-> FALSE]

\* Mutant: _create_monthly_backup without the emulator check of lines 102-103.
CreateMonthlyBackupAnyEmulator(f, st, dry, p, emulator, bfault) ==
    LET no == [fs |-> f, stats |-> st, ret |-> FALSE, failed |-> FALSE] IN
    IF ~backup_enabled \/ ~monthly_backups THEN no
    ELSE IF ~Exists(f.nas[p]) THEN no
    ELSE IF Exists(f.backups[month][p]) THEN no
    ELSE IF dry
        THEN [fs |-> f, stats |-> Inc(st, "backed_up"), ret |-> TRUE, failed |-> FALSE]
    ELSE IF bfault THEN [no EXCEPT !.failed = TRUE]
    ELSE [fs |-> [MkBackupDir(f) EXCEPT !.backups[month][p] = f.nas[p]],
          stats |-> Inc(st, "backed_up"), ret |-> TRUE, failed |-> FALSE]

\* _create_monthly_backup(nas_file, emulator) for the NAS file at relative
\* path p of the group; bfault says that the backup's I/O raises.
\* Result: the filesystem, the statistics, the return value, and whether the
\* backup's I/O raised (caught at line 136).  shutil.copy2 of a directory
\* raises IsADirectoryError, after the mkdir of line 131.
CreateMonthlyBackup(f, st, dry, p, emulator, bfault) ==
    LET no == [fs |-> f, stats |-> st, ret |-> FALSE, failed |-> FALSE] IN
    IF ~backup_enabled \/ ~monthly_backups THEN no
    ELSE IF ~Exists(f.nas[p]) THEN no
    ELSE IF emulator = NoEmulator THEN no
    ELSE IF Exists(f.backups[month][p]) THEN no
    ELSE IF dry
        THEN [fs |-> f, stats |-> Inc(st, "backed_up"), ret |-> TRUE, failed |-> FALSE]
    ELSE IF bfault THEN [no EXCEPT !.failed = TRUE]
    ELSE IF IsDir(f.nas[p])
        THEN [fs |-> MkBackupDir(f), stats |-> st, ret |-> FALSE, failed |-> TRUE]
    ELSE [fs |-> [MkBackupDir(f) EXCEPT !.backups[month][p] = f.nas[p]],
          stats |-> Inc(st, "backed_up"), ret |-> TRUE, failed |-> FALSE]

\* Mutant: a tie of the two mtimes uploads (>= for > at line 170).
ResolveDirectionTieUploads(f, p, direction) ==
    IF direction # "auto" THEN direction
    ELSE IF ~Exists(f.nas[p]) THEN "upload"
    ELSE IF ~Exists(f.local[p]) THEN "download"
    ELSE IF GetFileMtime(f.local[p]) >= GetFileMtime(f.nas[p]) THEN "upload"
    ELSE "download"

\* Mutant: the comparisons of lines 170 and 172 swapped, the older side wins.
ResolveDirectionOlderWins(f, p, direction) ==
    IF direction # "auto" THEN direction
    ELSE IF ~Exists(f.nas[p]) THEN "upload"
    ELSE IF ~Exists(f.local[p]) THEN "download"
    ELSE IF GetFileMtime(f.local[p]) < GetFileMtime(f.nas[p]) THEN "upload"
    ELSE IF GetFileMtime(f.nas[p]) < GetFileMtime(f.local[p]) THEN "download"
    ELSE "skip"

\* Lines 161-177: the direction _sync_file settles on; "skip" is the return
\* of line 177.
ResolveDirection(f, p, direction) ==
    IF direction # "auto" THEN direction
    ELSE IF ~Exists(f.nas[p]) THEN "upload"
    ELSE IF ~Exists(f.local[p]) THEN "download"
    ELSE IF GetFileMtime(f.local[p]) > GetFileMtime(f.nas[p]) THEN "upload"
    ELSE IF GetFileMtime(f.nas[p]) > GetFileMtime(f.local[p]) THEN "download"
    ELSE "skip"

\* Mutant: the snapshot of line 183 taken after the copy of line 190.
UploadSnapshotAfterCopy(f, st, dry, p, emulator, cfault, bfault) ==
    LET copied == ~dry /\ ~cfault /\ Exists(f.local[p])
        g == IF copied THEN [MkNasDir(f) EXCEPT !.nas[p] = f.local[p]]
             ELSE IF ~dry /\ ~cfault THEN MkNasDir(f) ELSE f
        b == IF Exists(f.nas[p]) /\ emulator # NoEmulator /\ (dry \/ copied)
             THEN CreateMonthlyBackup(g, st, dry, p, emulator, bfault)
             ELSE [fs |-> g, stats |-> st, ret |-> FALSE, failed |-> FALSE]
    IN  IF dry \/ copied
        THEN [fs |-> b.fs, stats |-> Inc(b.stats, "uploaded"), ret |-> TRUE,
              outcome |-> "uploaded", backup |-> b.ret,
              bfailed |-> b.failed, cfailed |-> FALSE]
        ELSE [fs |-> g, stats |-> Inc(st, "errors"), ret |-> FALSE,
              outcome |-> "error", backup |-> FALSE,
              bfailed |-> FALSE, cfailed |-> cfault]

\* Mutant: shutil.copy for shutil.copy2 at line 190, the copy gets the time
\* of the copy as its mtime.
UploadFreshMtime(f, st, dry, p, emulator, cfault, bfault) ==
    LET b == IF Exists(f.nas[p]) /\ emulator # NoEmulator
             THEN CreateMonthlyBackup(f, st, dry, p, emulator, bfault)
             ELSE [fs |-> f, stats |-> st, ret |-> FALSE, failed |-> FALSE]
        err(g, c) == [fs |-> g, stats |-> Inc(b.stats, "errors"), ret |-> FALSE,
                      outcome |-> "error", backup |-> b.ret,
                      bfailed |-> b.failed, cfailed |-> c]
        ok(g) == [fs |-> g, stats |-> Inc(b.stats, "uploaded"), ret |-> TRUE,
                  outcome |-> "uploaded", backup |-> b.ret,
                  bfailed |-> b.failed, cfailed |-> FALSE]
    IN  IF dry THEN ok(b.fs)
        ELSE IF cfault THEN err(b.fs, TRUE)
        ELSE IF ~Exists(f.local[p]) THEN err(MkNasDir(b.fs), FALSE)
        ELSE ok([MkNasDir(b.fs) EXCEPT
                    !.nas[p] = [content |-> f.local[p].content,
                                mtime |-> MaxTime + 1]])

\* Mutant: the exception of the backup's I/O is not caught at line 136 and
\* reaches the handler of line 204.
UploadBackupRaises(f, st, dry, p, emulator, cfault, bfault) ==
    LET b == IF Exists(f.nas[p]) /\ emulator # NoEmulator
             THEN CreateMonthlyBackup(f, st, dry, p, emulator, bfault)
             ELSE [fs |-> f, stats |-> st, ret |-> FALSE, failed |-> FALSE]
        err(g, c) == [fs |-> g, stats |-> Inc(b.stats, "errors"), ret |-> FALSE,
                      outcome |-> "error", backup |-> b.ret,
                      bfailed |-> b.failed, cfailed |-> c]
        ok(g) == [fs |-> g, stats |-> Inc(b.stats, "uploaded"), ret |-> TRUE,
                  outcome |-> "uploaded", backup |-> b.ret,
                  bfailed |-> b.failed, cfailed |-> FALSE]
    IN  IF b.failed THEN err(b.fs, FALSE)
        ELSE IF dry THEN ok(b.fs)
        ELSE IF cfault THEN err(b.fs, TRUE)
        ELSE IF ~Exists(f.local[p]) THEN err(MkNasDir(b.fs), FALSE)
        ELSE ok([MkNasDir(b.fs) EXCEPT !.nas[p] = f.local[p]])

\* Lines 180-193: the upload branch.  b is the state the snapshot left.
\* shutil.copy2 raises for a source that is missing or a directory, and
\* copies into a destination that is a directory.
Upload(f, st, dry, p, emulator, cfault, bfault) ==
    LET b == IF Exists(f.nas[p]) /\ emulator # NoEmulator
             THEN CreateMonthlyBackup(f, st, dry, p, emulator, bfault)
             ELSE [fs |-> f, stats |-> st, ret |-> FALSE, failed |-> FALSE]
        err(g, c) == [fs |-> g, stats |-> Inc(b.stats, "errors"), ret |-> FALSE,
                      outcome |-> "error", backup |-> b.ret,
                      bfailed |-> b.failed, cfailed |-> c]
        ok(g) == [fs |-> g, stats |-> Inc(b.stats, "uploaded"), ret |-> TRUE,
                  outcome |-> "uploaded", backup |-> b.ret,
                  bfailed |-> b.failed, cfailed |-> FALSE]
    IN  IF dry THEN ok(b.fs)
        ELSE IF cfault THEN err(b.fs, TRUE)
        ELSE IF ~IsFile(f.local[p]) THEN err(MkNasDir(b.fs), FALSE)
        ELSE IF IsDir(f.nas[p])
        THEN ok([MkNasDir(b.fs) EXCEPT !.nas[p] = CopyInto(f.nas[p], f.local[p])])
        ELSE ok([MkNasDir(b.fs) EXCEPT !.nas[p] = f.local[p]])

\* Mutant: the download branch counts 'uploaded' at line 202.
DownloadCountsUploaded(f, st, dry, p, cfault) ==
    LET err(g, c) == [fs |-> g, stats |-> Inc(st, "errors"), ret |-> FALSE,
                      outcome |-> "error", backup |-> FALSE,
                      bfailed |-> FALSE, cfailed |-> c]
        ok(g) == [fs |-> g, stats |-> Inc(st, "uploaded"), ret |-> TRUE,
                  outcome |-> "downloaded", backup |-> FALSE,
                  bfailed |-> FALSE, cfailed |-> FALSE]
    IN  IF dry THEN ok(f)
        ELSE IF cfault THEN err(f, TRUE)
        ELSE IF ~Exists(f.nas[p]) THEN err(MkLocalDir(f), FALSE)
        ELSE ok([MkLocalDir(f) EXCEPT !.local[p] = f.nas[p]])

\* Mutant: shutil.copy for shutil.copy2 at line 200, the copy gets the time
\* of the copy as its mtime.
DownloadFreshMtime(f, st, dry, p, cfault) ==
    LET err(g, c) == [fs |-> g, stats |-> Inc(st, "errors"), ret |-> FALSE,
                      outcome |-> "error", backup |-> FALSE,
                      bfailed |-> FALSE, cfailed |-> c]
        ok(g) == [fs |-> g, stats |-> Inc(st, "downloaded"), ret |-> TRUE,
                  outcome |-> "downloaded", backup |-> FALSE,
                  bfailed |-> FALSE, cfailed |-> FALSE]
    IN  IF dry THEN ok(f)
        ELSE IF cfault THEN err(f, TRUE)
        ELSE IF ~IsFile(f.nas[p]) THEN err(MkLocalDir(f), FALSE)
        ELSE ok([MkLocalDir(f) EXCEPT
                    !.local[p] = [content |-> f.nas[p].content,
                                  mtime |-> MaxTime + 1]])

\* Mutant: the download branch makes the parent of the NAS path, as line 187
\* does, for that of the local path (line 198).
DownloadMakesNasDir(f, st, dry, p, cfault) ==
    LET err(g, c) == [fs |-> g, stats |-> Inc(st, "errors"), ret |-> FALSE,
                      outcome |-> "error", backup |-> FALSE,
                      bfailed |-> FALSE, cfailed |-> c]
        ok(g) == [fs |-> g, stats |-> Inc(st, "downloaded"), ret |-> TRUE,
                  outcome |-> "downloaded", backup |-> FALSE,
                  bfailed |-> FALSE, cfailed |-> FALSE]
    IN  IF dry THEN ok(f)
        ELSE IF cfault THEN err(f, TRUE)
        ELSE IF ~IsFile(f.nas[p]) \/ ~f.localDir THEN err(MkNasDir(f), FALSE)
        ELSE IF IsDir(f.local[p])
        THEN ok([MkNasDir(f) EXCEPT !.local[p] = CopyInto(f.local[p], f.nas[p])])
        ELSE ok([MkNasDir(f) EXCEPT !.local[p] = f.nas[p]])

\* Lines 194-203: the download branch.
Download(f, st, dry, p, cfault) ==
    LET err(g, c) == [fs |-> g, stats |-> Inc(st, "errors"), ret |-> FALSE,
                      outcome |-> "error", backup |-> FALSE,
                      bfailed |-> FALSE, cfailed |-> c]
        ok(g) == [fs |-> g, stats |-> Inc(st, "downloaded"), ret |-> TRUE,
                  outcome |-> "downloaded", backup |-> FALSE,
                  bfailed |-> FALSE, cfailed |-> FALSE]
    IN  IF dry THEN ok(f)
        ELSE IF cfault THEN err(f, TRUE)
        ELSE IF ~IsFile(f.nas[p]) THEN err(MkLocalDir(f), FALSE)
        ELSE IF IsDir(f.local[p])
        THEN ok([MkLocalDir(f) EXCEPT !.local[p] = CopyInto(f.local[p], f.nas[p])])
        ELSE ok([MkLocalDir(f) EXCEPT !.local[p] = f.nas[p]])

\* Mutant: _sync_file without the return of lines 157-158.
SyncFileNoAbsentCheck(f, st, dry, p, direction, emulator, cfault, bfault) ==
    LET d == ResolveDirection(f, p, direction) IN
    IF d = "skip"
    THEN [fs |-> f, stats |-> Inc(st, "skipped"), ret |-> FALSE,
          outcome |-> "skipped", backup |-> FALSE, bfailed |-> FALSE,
          cfailed |-> FALSE]
    ELSE IF d = "upload"
    THEN Upload(f, st, dry, p, emulator, cfault, bfault)
    ELSE Download(f, st, dry, p, cfault)

\* _sync_file(local_dir / p, nas_dir / p, direction, emulator).
\* outcome: "none" (line 158), "skipped", "uploaded", "downloaded", "error".
SyncFile(f, st, dry, p, direction, emulator, cfault, bfault) ==
    IF ~Exists(f.local[p]) /\ ~Exists(f.nas[p])
    THEN [fs |-> f, stats |-> st, ret |-> FALSE, outcome |-> "none",
          backup |-> FALSE, bfailed |-> FALSE, cfailed |-> FALSE]
    ELSE LET d == ResolveDirection(f, p, direction) IN
         IF d = "skip"
         THEN [fs |-> f, stats |-> Inc(st, "skipped"), ret |-> FALSE,
               outcome |-> "skipped", backup |-> FALSE, bfailed |-> FALSE,
               cfailed |-> FALSE]
         ELSE IF d = "upload"
         THEN Upload(f, st, dry, p, emulator, cfault, bfault)
         ELSE Download(f, st, dry, p, cfault)


\* -------------------------------------------------------------------- names
\* A string is the sequence of its code points, a relative path (a Path
\* object) the sequence of its components.  The relative paths of the trees:
\* 1 is a/b.ps2, 2 is a-b.PS2, and the paths from 3 on are the one-letter
\* names e, f, ...
RelPath(p) ==
    CASE p = 1 -> << <<97>>, <<98, 46, 112, 115, 50>> >>
      [] p = 2 -> << <<97, 45, 98, 46, 80, 83, 50>> >>
      [] OTHER -> << <<98 + p>> >>

\* str.__lt__: the order of two strings by code point.
RECURSIVE StrLess(_, _)
StrLess(x, y) ==
    IF y = <<>> THEN FALSE
    ELSE IF x = <<>> THEN TRUE
    ELSE IF Head(x) # Head(y) THEN Head(x) < Head(y)
    ELSE StrLess(Tail(x), Tail(y))

\* PurePath.__lt__ on a POSIX flavour: the order of the two lists of
\* components, each pair of components compared as strings.
RECURSIVE PathLess(_, _)
PathLess(x, y) ==
    IF y = <<>> THEN FALSE
    ELSE IF x = <<>> THEN TRUE
    ELSE IF Head(x) # Head(y) THEN StrLess(Head(x), Head(y))
    ELSE PathLess(Tail(x), Tail(y))

\* str(path): the components joined by '/'.
RECURSIVE Str(_)
Str(x) ==
    IF Len(x) = 1 THEN x[1] ELSE x[1] \o <<47>> \o Str(Tail(x))

\* str.lower() on ASCII.
Lower(x) == [i \in DOMAIN x |-> IF x[i] \in 65..90 THEN x[i] + 32 ELSE x[i]]

\* PurePath.suffix: the final component from its last '.', '' when there is
\* none or the dot is the first or the last character.
Suffix(x) ==
    LET name == x[Len(x)]
        dots == {i \in DOMAIN name : name[i] = 46}
        i == IF dots = {} THEN 0 ELSE CHOOSE d \in dots : \A e \in dots : e <= d
    IN  IF 1 < i /\ i < Len(name) THEN SubSeq(name, i, Len(name)) ELSE <<>>

\* The extensions argument of _sync_directory: None, or a list of strings.
None == [given |-> FALSE, list |-> {}]
Extensions == {<<46, 112, 115, 50>>, <<46, 80, 83, 50>>, <<46, 103, 99, 105>>}
ExtensionLists == {[given |-> TRUE, list |-> l] : l \in SUBSET Extensions}

\* Lines 233, 239, 247, 253: whether the filter lets the path through.
Matches(p, extensions) ==
    ~extensions.given \/ Lower(Suffix(RelPath(p))) \in extensions.list

\* Mutant: sorted(all_files, key=str), the order of the paths as strings.
RECURSIVE SortedByStr(_)
SortedByStr(S) ==
    IF S = {} THEN <<>>
    ELSE LET m == CHOOSE x \in S :
                    \A y \in S : x = y \/ StrLess(Str(RelPath(x)), Str(RelPath(y)))
         IN  <<m>> \o SortedByStr(S \ {m})

\* sorted(S) for a set of relative paths.
RECURSIVE Sorted(_)
Sorted(S) ==
    IF S = {} THEN <<>>
    ELSE LET m == CHOOSE x \in S :
                    \A y \in S : x = y \/ PathLess(RelPath(x), RelPath(y))
         IN  <<m>> \o Sorted(S \ {m})

\* One line of a call's record: what _sync_file did with a path.
Entry(p, r) == [path |-> p, outcome |-> r.outcome, backup |-> r.backup,
                bfailed |-> r.bfailed, cfailed |-> r.cfailed]

\* Mutant: the exception of a failed copy leaves the loop.
RECURSIVE SyncPathsAbort(_, _, _, _, _, _, _)
SyncPathsAbort(seq, acc, dry, direction, emulator, cf, bf) ==
    IF seq = <<>> THEN acc
    ELSE LET p == Head(seq)
             r == SyncFile(acc.fs, acc.stats, dry, p, direction, emulator,
                           p \in cf, p \in bf)
             a == [fs |-> r.fs, stats |-> r.stats,
                   log |-> Append(acc.log, Entry(p, r))]
         IN  IF r.outcome = "error" THEN a
             ELSE SyncPathsAbort(Tail(seq), a, dry, direction, emulator, cf, bf)

\* The loops of lines 259-262 and 531-534: _sync_file over the sorted paths,
\* each call starting from the state the one before it left.  cf and bf are
\* the paths whose copy and whose backup raise.
RECURSIVE SyncPaths(_, _, _, _, _, _, _)
SyncPaths(seq, acc, dry, direction, emulator, cf, bf) ==
    IF seq = <<>> THEN acc
    ELSE LET p == Head(seq)
             r == SyncFile(acc.fs, acc.stats, dry, p, direction, emulator,
                           p \in cf, p \in bf)
         IN  SyncPaths(Tail(seq),
                       [fs |-> r.fs, stats |-> r.stats,
                        log |-> Append(acc.log, Entry(p, r))],
                       dry, direction, emulator, cf, bf)

\* rglob('*') filtered by is_file() under the local root / the NAS group
\* directory (lines 229-255, 433-437): empty when the root does not exist.
LocalFiles(f) == IF f.localDir THEN {p \in Paths : IsFile(f.local[p])} ELSE {}
NasFiles(f) == IF f.nasDir THEN {p \in Paths : IsFile(f.nas[p])} ELSE {}

\* all_files of line 258: the files of either tree the filter lets through.
AllFiles(f, extensions) ==
    {p \in LocalFiles(f) \cup NasFiles(f) : Matches(p, extensions)}

\* Mutant: _sync_directory gives up when one of the two roots is missing.
SyncDirectoryNeedsRoots(f, st, dry, extensions, emulator, cf, bf) ==
    IF ~f.localDir \/ ~f.nasDir THEN [fs |-> f, stats |-> st, log |-> <<>>]
    ELSE SyncPaths(Sorted(AllFiles(f, extensions)),
                   [fs |-> f, stats |-> st, log |-> <<>>],
                   dry, "auto", emulator, cf, bf)

\* _sync_directory(local_dir, nas_dir, recursive=True, extensions=extensions,
\* emulator=emulator).
SyncDirectory(f, st, dry, extensions, emulator, cf, bf) ==
    SyncPaths(Sorted(AllFiles(f, extensions)),
              [fs |-> f, stats |-> st, log |-> <<>>],
              dry, "auto", emulator, cf, bf)

\* sync_pcsx2.
SyncPcsx2(f, st, dry, cf, bf) ==
    IF ~pcsx2_enabled THEN [fs |-> f, stats |-> st, log |-> <<>>]
    ELSE SyncDirectory(f, st, dry, None, PCSX2, cf, bf)

\* Mutant: sync_all creates the NAS root in a dry run too.
SyncAllMkdirInDryRun(f, st, dry, rfault, cf, bf) ==
    IF ~f.nasRoot /\ rfault
    THEN [fs |-> f, stats |-> st, log |-> <<>>]
    ELSE SyncPcsx2([f EXCEPT !.nasRoot = TRUE], st, dry, cf, bf)

\* sync_all: rfault says that creating the NAS root raises (line 329).
SyncAll(f, st, dry, rfault, cf, bf) ==
    IF ~f.nasRoot /\ ~dry /\ rfault
    THEN [fs |-> f, stats |-> st, log |-> <<>>]
    ELSE SyncPcsx2(IF ~f.nasRoot /\ ~dry THEN [f EXCEPT !.nasRoot = TRUE] ELSE f,
                   st, dry, cf, bf)

\* The loop of lines 379-381: _create_monthly_backup over the NAS files.
RECURSIVE BackupPaths(_, _, _, _)
BackupPaths(seq, acc, dry, bf) ==
    IF seq = <<>> THEN acc
    ELSE LET p == Head(seq)
             r == CreateMonthlyBackup(acc.fs, acc.stats, dry, p, PCSX2, p \in bf)
         IN  BackupPaths(Tail(seq),
                         [fs |-> r.fs, stats |-> r.stats,
                          log |-> Append(acc.log,
                                   [path |-> p, outcome |-> "snapshot",
                                    backup |-> r.ret, bfailed |-> r.failed,
                                    cfailed |-> FALSE])],
                         dry, bf)

\* create_backups.
CreateBackups(f, st, dry, bf) ==
    IF ~backup_enabled \/ ~pcsx2_enabled
    THEN [fs |-> f, stats |-> st, log |-> <<>>]
    ELSE BackupPaths(Sorted(NasFiles(f)), [fs |-> f, stats |-> st, log |-> <<>>],
                     dry, bf)

\* _init_prompt_and_sync, lines 486-525: the direction, or "return".
\* choice is the line read from input(); EOF is any other choice.
InitDirection(f, choice) ==
    LET local_count == Cardinality(LocalFiles(f))
        nas_count == Cardinality(NasFiles(f))
    IN  IF local_count = 0 /\ nas_count = 0 THEN "return"
        ELSE IF local_count > 0 /\ nas_count > 0
        THEN CASE choice = "1" -> "upload"
               [] choice = "2" -> "download"
               [] choice = "3" -> "auto"
               [] OTHER -> "return"
        ELSE IF local_count > 0 THEN "upload"
        ELSE "download"

\* initialize, for the one configured emulator.
Initialize(f, st, dry, choice, cf, bf) ==
    IF ~pcsx2_enabled \/ InitDirection(f, choice) = "return"
    THEN [fs |-> f, stats |-> st, log |-> <<>>]
    ELSE SyncPaths(Sorted(LocalFiles(f) \cup NasFiles(f)),
                   [fs |-> f, stats |-> st, log |-> <<>>],
                   dry, InitDirection(f, choice), PCSX2, cf, bf)

\* ------------------------------------------------------------------ probes
\* _sync_file when stat() can raise an OSError other than FileNotFoundError
\* (pfault): _get_file_mtime catches FileNotFoundError only (line 80) and is
\* called at lines 167-168, before the try of line 179, so the exception
\* leaves _sync_file: outcome "raised", no counter touched.  The lookup is
\* reached with direction 'auto' and both sides existing.
SyncFileProbing(f, st, dry, p, direction, emulator, pfault, cfault, bfault) ==
    IF pfault /\ direction = "auto" /\ Exists(f.local[p]) /\ Exists(f.nas[p])
    THEN [fs |-> f, stats |-> st, ret |-> FALSE, outcome |-> "raised",
          backup |-> FALSE, bfailed |-> FALSE, cfailed |-> FALSE]
    ELSE SyncFile(f, st, dry, p, direction, emulator, cfault, bfault)

\* The loop of lines 259-262 when stat() can raise for the paths of pf: an
\* exception that leaves _sync_file leaves the loop and _sync_directory.
RECURSIVE SyncPathsProbing(_, _, _, _, _, _, _, _)
SyncPathsProbing(seq, acc, dry, direction, emulator, pf, cf, bf) ==
    IF seq = <<>> THEN acc
    ELSE LET p == Head(seq)
             r == SyncFileProbing(acc.fs, acc.stats, dry, p, direction, emulator,
                                  p \in pf, p \in cf, p \in bf)
             a == [fs |-> r.fs, stats |-> r.stats,
                   log |-> Append(acc.log, Entry(p, r))]
         IN  IF r.outcome = "raised" THEN a
             ELSE SyncPathsProbing(Tail(seq), a, dry, direction, emulator,
                                   pf, cf, bf)

\* _sync_directory(local_dir, nas_dir, recursive=True, emulator=emulator)
\* when stat() can raise for the paths of pf.
SyncDirectoryProbing(f, st, dry, emulator, pf, cf, bf) ==
    SyncPathsProbing(Sorted(AllFiles(f, None)),
                     [fs |-> f, stats |-> st, log |-> <<>>],
                     dry, "auto", emulator, pf, cf, bf)

\* The exception that left a loop over the paths, "" when it ended.
Raised(log) ==
    IF log # <<>> /\ log[Len(log)].outcome = "raised" THEN "OSError" ELSE ""

\* ---------------------------------------------------------- configuration
\* config['emulators'][g] of a group g: the key is "absent"; the group is
\* "disabled" ('enabled' false or missing); it is enabled and has no
\* 'save_path' ("nopath"); it is "enabled" with a 'save_path'.
GroupConfigs == {"absent", "disabled", "nopath", "enabled"}

\* The configuration file: whether it has 'nas_path' and 'emulators', the
\* two groups, and which of them the file lists first.  No 'saves' table is
\* configured for dolphin and the NAS holds no Dolphin tree.
NoConfig == [nas_path |-> FALSE, emulators |-> FALSE, pcsx2 |-> "absent",
             dolphin |-> "absent", first |-> "pcsx2"]

Configs ==
    {c \in [nas_path : BOOLEAN, emulators : BOOLEAN, pcsx2 : GroupConfigs,
            dolphin : GroupConfigs, first : {"pcsx2", "dolphin"}] :
        (~c.nas_path \/ ~c.emulators) =>
            c.pcsx2 = "absent" /\ c.dolphin = "absent" /\ c.first = "pcsx2"}

\* The arguments of main(): --init, --backup-only, -e all | pcsx2 | dolphin.
Modes == {"init", "backup_only", "all", "pcsx2", "dolphin"}

\* _load_config: the exception it raises, "" when it returns the dictionary.
LoadConfig(cfg) ==
    IF ~cfg.nas_path THEN "ValueError"
    ELSE IF ~cfg.emulators THEN "ValueError"
    ELSE ""

\* What a method of a run of main() leaves: a is [fs, stats, log] and e the
\* exception that left the method.
Ran(a, e) == [fs |-> a.fs, stats |-> a.stats, log |-> a.log, raised |-> e]

\* The run a followed by a method that returned r.
After(a, r) ==
    [fs |-> r.fs, stats |-> r.stats, log |-> a.log \o r.log, raised |-> ""]

\* sync_pcsx2 with the configuration cfg: line 272 raises KeyError when the
\* group is enabled and has no 'save_path'.
SyncPcsx2Config(cfg, a, dry, cf, bf) ==
    IF cfg.pcsx2 = "nopath" THEN Ran(a, "KeyError")
    ELSE After(a, SyncPcsx2(a.fs, a.stats, dry, cf, bf))

\* sync_dolphin with the configuration cfg: line 290 raises KeyError; with
\* a 'save_path' and no 'saves' table it walks no tree (lines 299, 306).
SyncDolphin(cfg, a) ==
    IF cfg.dolphin = "nopath" THEN Ran(a, "KeyError") ELSE Ran(a, "")

\* sync_all with the configuration cfg: the NAS root (lines 322-331), then
\* pcsx2 and dolphin when the key is in config['emulators'] (lines 336-340).
SyncAllDolphin(cfg, p) ==
    IF p.raised # "" THEN p
    ELSE IF cfg.dolphin = "absent" THEN p
    ELSE SyncDolphin(cfg, p)

SyncAllConfig(cfg, a, dry, rfault, cf, bf) ==
    IF ~a.fs.nasRoot /\ ~dry /\ rfault THEN Ran(a, "")
    ELSE LET g == IF ~a.fs.nasRoot /\ ~dry THEN [a.fs EXCEPT !.nasRoot = TRUE]
                  ELSE a.fs
         IN  SyncAllDolphin(cfg,
                 IF cfg.pcsx2 = "absent" THEN Ran([a EXCEPT !.fs = g], "")
                 ELSE SyncPcsx2Config(cfg, [a EXCEPT !.fs = g], dry, cf, bf))

\* One round of the loop of initialize (lines 411-419) for each group:
\* _init_emulator_pcsx2 (line 427 raises KeyError) and _init_emulator_dolphin
\* (line 443), each reached only for an enabled group (line 412) and only
\* when no earlier round raised.
InitPcsx2(cfg, a, dry, choice, cf, bf) ==
    IF a.raised # "" THEN a
    ELSE IF cfg.pcsx2 = "nopath" THEN Ran(a, "KeyError")
    ELSE IF cfg.pcsx2 # "enabled" THEN Ran(a, "")
    ELSE After(a, Initialize(a.fs, a.stats, dry, choice, cf, bf))

InitDolphin(cfg, a) ==
    IF a.raised # "" THEN a
    ELSE IF cfg.dolphin = "nopath" THEN Ran(a, "KeyError")
    ELSE Ran(a, "")

\* initialize with the configuration cfg: the groups in the order of the
\* file (emulators.items(), line 411).
InitializeConfig(cfg, a, dry, choice, cf, bf) ==
    IF cfg.first = "pcsx2"
    THEN InitDolphin(cfg, InitPcsx2(cfg, a, dry, choice, cf, bf))
    ELSE InitPcsx2(cfg, InitDolphin(cfg, a), dry, choice, cf, bf)

\* main(): SaveSync(args.config, dry_run) and the method the arguments
\* choose (lines 577-589); raised is the exception line 591 catches.
Main(cfg, mode, f, st, dry, choice, rfault, cf, bf) ==
    LET a == [fs |-> f, stats |-> st, log |-> <<>>, raised |-> ""] IN
    IF LoadConfig(cfg) # "" THEN Ran(a, LoadConfig(cfg))
    ELSE CASE mode = "init" -> InitializeConfig(cfg, a, dry, choice, cf, bf)
           [] mode = "backup_only" -> Ran(CreateBackups(f, st, dry, bf), "")
           [] mode = "all" -> SyncAllConfig(cfg, a, dry, rfault, cf, bf)
           [] mode = "pcsx2" -> SyncPcsx2Config(cfg, a, dry, cf, bf)
           [] OTHER -> SyncDolphin(cfg, a)


\* ---------------------------------------------------------------- states
\* The I/O failures a call can meet: a dry run does no I/O, and the backup's
\* I/O is reached only with backups configured.
NoFaults == {}
CopyFaults == IF dry_run THEN {NoFaults} ELSE SUBSET Paths
BackupFaults == IF dry_run \/ ~backup_enabled \/ ~monthly_backups
                THEN {NoFaults} ELSE SUBSET Paths

\* The record of a call: op, its arguments, the month, the filesystem (fs0)
\* and statistics (stats0) it started from, what it did with each path (log),
\* its return value, whether creating the NAS root raised (rfailed), and the
\* exception that left the call ("" when it returned).  For a run of main():
\* the configuration file it read and the mode its arguments chose.  For
\* _sync_directory: its extensions argument, and the paths for which stat()
\* raises an error other than not-found (pf).
EmptyFs ==
    [local |-> [p \in Paths |-> NoFile], nas |-> [p \in Paths |-> NoFile],
     backups |-> [m \in Months |-> [p \in Paths |-> NoFile]],
     localDir |-> FALSE, nasRoot |-> FALSE, nasDir |-> FALSE, bkDirs |-> {}]

NoCall == [op |-> "none", path |-> 0, direction |-> "", emulator |-> "",
           month |-> 0, fs0 |-> EmptyFs, stats0 |-> ZeroStats, log |-> <<>>,
           ret |-> FALSE, rfailed |-> FALSE, raised |-> "",
           config |-> NoConfig, mode |-> "", extensions |-> None, pf |-> {}]

\* The filesystems a session can find: any files in the two trees, this
\* month's archive holding older versions of some NAS files, a directory
\* present whenever something is in it and possibly when nothing is.
InitFs ==
    {f \in [local : [Paths -> LocalVals \cup {NoFile}],
            nas : [Paths -> NasVals \cup {NoFile}],
            backups : [Months -> [Paths -> OldVals \cup {NoFile}]],
            localDir : BOOLEAN, nasRoot : BOOLEAN, nasDir : BOOLEAN,
            bkDirs : SUBSET Months] :
        /\ \A m \in Months \ {1} : \A p \in Paths : f.backups[m][p] = NoFile
        /\ f.bkDirs = {m \in Months : \E p \in Paths : Exists(f.backups[m][p])}
        /\ (\E p \in Paths : Exists(f.local[p])) => f.localDir
        /\ (\E p \in Paths : Exists(f.nas[p])) => f.nasDir
        /\ (f.nasDir \/ f.bkDirs # {}) => f.nasRoot}

\* The filesystems in which a relative path can be a directory on one side
\* and a regular file on the other, the archive holding nothing yet.
InitFsKinds ==
    {f \in [local : [Paths -> LocalVals \cup DirVals \cup {NoFile}],
            nas : [Paths -> NasVals \cup DirVals \cup {NoFile}],
            backups : {EmptyFs.backups},
            localDir : BOOLEAN, nasRoot : BOOLEAN, nasDir : BOOLEAN,
            bkDirs : {{}}] :
        /\ (\E p \in Paths : Exists(f.local[p])) => f.localDir
        /\ (\E p \in Paths : Exists(f.nas[p])) => f.nasDir
        /\ f.nasDir => f.nasRoot}

\* SaveSync.__init__ (lines 29-44) on a filesystem the session finds.
Init ==
    /\ fs \in InitFs
    /\ month = 1
    /\ dry_run \in BOOLEAN
    /\ backup_enabled \in BOOLEAN
    /\ monthly_backups \in BOOLEAN
    /\ pcsx2_enabled \in BOOLEAN
    /\ sync_stats = ZeroStats
    /\ ops = 0
    /\ last = NoCall
    /\ prev = NoCall
    /\ twin = [stats |-> ZeroStats, log |-> <<>>]

\* A call returned: r is what it did, t what it does with dry_run negated
\* and no I/O failing.
Return(rec, r, t) ==
    /\ fs' = r.fs
    /\ sync_stats' = r.stats
    /\ prev' = last
    /\ last' = [rec EXCEPT !.month = month, !.fs0 = fs, !.stats0 = sync_stats]
    /\ twin' = [stats |-> t.stats, log |-> t.log]
    /\ ops' = ops + 1
    /\ UNCHANGED <<month, dry_run, backup_enabled, monthly_backups, pcsx2_enabled>>

One(p, r) == [fs |-> r.fs, stats |-> r.stats, log |-> <<Entry(p, r)>>]

\* ---------------------------------------------------------------- actions
CallSyncFile ==
    \E p \in Paths, d \in Directions, e \in Emulators, cf \in CopyFaults,
       bf \in BackupFaults :
        LET r == SyncFile(fs, sync_stats, dry_run, p, d, e, p \in cf, p \in bf)
            t == SyncFile(fs, sync_stats, ~dry_run, p, d, e, FALSE, FALSE)
        IN  Return([NoCall EXCEPT !.op = "sync_file", !.path = p, !.direction = d,
                                  !.emulator = e, !.log = <<Entry(p, r)>>,
                                  !.ret = r.ret],
                   r, One(p, t))

CallCreateMonthlyBackup ==
    \E p \in Paths, e \in Emulators, bf \in BackupFaults :
        LET snap(x) == [fs |-> x.fs, stats |-> x.stats,
                        log |-> <<[path |-> p, outcome |-> "snapshot",
                                   backup |-> x.ret, bfailed |-> x.failed,
                                   cfailed |-> FALSE]>>]
            r == CreateMonthlyBackup(fs, sync_stats, dry_run, p, e, p \in bf)
            t == CreateMonthlyBackup(fs, sync_stats, ~dry_run, p, e, FALSE)
        IN  Return([NoCall EXCEPT !.op = "create_monthly_backup", !.path = p,
                                  !.emulator = e, !.log = snap(r).log,
                                  !.ret = r.ret],
                   snap(r), snap(t))

CallSyncDirectory ==
    \E cf \in CopyFaults, bf \in BackupFaults :
        LET r == SyncDirectory(fs, sync_stats, dry_run, None, PCSX2, cf, bf)
            t == SyncDirectory(fs, sync_stats, ~dry_run, None, PCSX2, NoFaults,
                               NoFaults)
        IN  Return([NoCall EXCEPT !.op = "sync_directory", !.direction = "auto",
                                  !.emulator = PCSX2, !.log = r.log],
                   r, t)

\* _sync_directory on trees where stat() raises for the paths of pf.
CallSyncDirectoryProbing ==
    \E pf \in SUBSET Paths, cf \in CopyFaults, bf \in BackupFaults :
        LET r == SyncDirectoryProbing(fs, sync_stats, dry_run, PCSX2, pf, cf, bf)
            t == SyncDirectory(fs, sync_stats, ~dry_run, None, PCSX2, NoFaults,
                               NoFaults)
        IN  Return([NoCall EXCEPT !.op = "sync_directory", !.direction = "auto",
                                  !.emulator = PCSX2, !.log = r.log, !.pf = pf,
                                  !.raised = Raised(r.log)],
                   r, t)

\* _sync_directory called with an allow-list of extensions.
CallSyncDirectoryExtensions ==
    \E extensions \in ExtensionLists, cf \in CopyFaults, bf \in BackupFaults :
        LET r == SyncDirectory(fs, sync_stats, dry_run, extensions, PCSX2, cf, bf)
            t == SyncDirectory(fs, sync_stats, ~dry_run, extensions, PCSX2,
                               NoFaults, NoFaults)
        IN  Return([NoCall EXCEPT !.op = "sync_directory(extensions)",
                                  !.direction = "auto", !.emulator = PCSX2,
                                  !.extensions = extensions, !.log = r.log],
                   r, t)

CallSyncAll ==
    \E rfault \in Faults, cf \in CopyFaults, bf \in BackupFaults :
        LET r == SyncAll(fs, sync_stats, dry_run, rfault, cf, bf)
            t == SyncAll(fs, sync_stats, ~dry_run, FALSE, NoFaults, NoFaults)
        IN  Return([NoCall EXCEPT !.op = "sync_all", !.direction = "auto",
                                  !.emulator = PCSX2, !.log = r.log,
                                  !.rfailed = ~fs.nasRoot /\ ~dry_run /\ rfault],
                   r, t)

CallCreateBackups ==
    \E bf \in BackupFaults :
        LET r == CreateBackups(fs, sync_stats, dry_run, bf)
            t == CreateBackups(fs, sync_stats, ~dry_run, NoFaults)
        IN  Return([NoCall EXCEPT !.op = "create_backups", !.emulator = PCSX2,
                                  !.log = r.log],
                   r, t)

CallInitialize ==
    \E choice \in {"1", "2", "3", "4"}, cf \in CopyFaults, bf \in BackupFaults :
        LET r == Initialize(fs, sync_stats, dry_run, choice, cf, bf)
            t == Initialize(fs, sync_stats, ~dry_run, choice, NoFaults, NoFaults)
        IN  Return([NoCall EXCEPT !.op = "initialize",
                                  !.direction = InitDirection(fs, choice),
                                  !.emulator = PCSX2, !.log = r.log],
                   r, t)

\* The configurations that give this SaveSync object its pcsx2_enabled.
ConfigsOfObject ==
    {c \in Configs : LoadConfig(c) = "" =>
                        (pcsx2_enabled <=> c.pcsx2 \in {"nopath", "enabled"})}

\* The record of a run of main() that left r, and of its twin t.
ReturnMain(cfg, mode, r, t) ==
    Return([NoCall EXCEPT !.op = "main", !.config = cfg, !.mode = mode,
                          !.emulator = PCSX2, !.log = r.log,
                          !.raised = r.raised],
           r, t)

\* A run of main() on the configuration file cfg.  The line read from input()
\* and the I/O failures are drawn where the run can meet them.
CallMain ==
    \E cfg \in ConfigsOfObject, mode \in Modes :
    \E choice \in IF mode = "init" /\ cfg.pcsx2 = "enabled"
                  THEN {"1", "2", "3", "4"} ELSE {""},
       rfault \in IF mode = "all" /\ LoadConfig(cfg) = "" THEN Faults ELSE {FALSE},
       cf \in IF mode \in {"init", "all", "pcsx2"} /\ cfg.pcsx2 = "enabled"
              THEN CopyFaults ELSE {NoFaults},
       bf \in IF mode # "dolphin" /\ cfg.pcsx2 \in {"nopath", "enabled"}
              THEN BackupFaults ELSE {NoFaults} :
        ReturnMain(cfg, mode,
                   Main(cfg, mode, fs, sync_stats, dry_run, choice, rfault, cf,
                        bf),
                   Main(cfg, mode, fs, sync_stats, ~dry_run, choice, FALSE,
                        NoFaults, NoFaults))

\* The calendar month changes between two calls.
Tick ==
    /\ month < MaxMonth
    /\ month' = month + 1
    /\ UNCHANGED <<fs, dry_run, backup_enabled, monthly_backups, pcsx2_enabled,
                   sync_stats, ops, last, prev, twin>>

Next ==
    \/ ops < MaxOps /\ CallSyncFile
    \/ ops < MaxOps /\ CallCreateMonthlyBackup
    \/ ops < MaxOps /\ CallSyncDirectory
    \/ ops < MaxOps /\ CallSyncAll
    \/ ops < MaxOps /\ CallCreateBackups
    \/ ops < MaxOps /\ CallInitialize

Spec == Init /\ [][Next]_vars

\* Calls repeated on one SaveSync object: tree reconciliations and snapshots.
NextRepeat ==
    \/ ops < MaxRepeat /\ CallSyncDirectory
    \/ ops < MaxRepeat /\ CallCreateMonthlyBackup
    \/ Tick

\* They start on an archive that holds nothing yet.
InitRepeat ==
    /\ Init
    /\ pcsx2_enabled
    /\ \A m \in Months : \A p \in Paths : fs.backups[m][p] = NoFile

SpecRepeat == InitRepeat /\ [][NextRepeat]_vars

\* One run of main() per behaviour, on an archive that holds nothing yet.
NextMain == ops < MaxOps /\ CallMain

InitMain ==
    /\ Init
    /\ \A m \in Months : \A p \in Paths : fs.backups[m][p] = NoFile

SpecMain == InitMain /\ [][NextMain]_vars

\* One tree reconciliation per behaviour, with stat() failing on some paths.
NextProbing == ops < MaxOps /\ CallSyncDirectoryProbing

SpecProbing == InitMain /\ [][NextProbing]_vars

\* One call of the File Reconciler or the Tree Reconciler per behaviour, on
\* trees that hold directories too.
NextKinds ==
    \/ ops < MaxOps /\ CallSyncFile
    \/ ops < MaxOps /\ CallSyncDirectory

InitKinds ==
    /\ fs \in InitFsKinds
    /\ month = 1
    /\ dry_run \in BOOLEAN
    /\ backup_enabled \in BOOLEAN
    /\ monthly_backups = TRUE
    /\ pcsx2_enabled = TRUE
    /\ sync_stats = ZeroStats
    /\ ops = 0
    /\ last = NoCall
    /\ prev = NoCall
    /\ twin = [stats |-> ZeroStats, log |-> <<>>]

SpecKinds == InitKinds /\ [][NextKinds]_vars

\* One tree reconciliation with an allow-list per behaviour.
NextExtensions == ops < MaxOps /\ CallSyncDirectoryExtensions

SpecExtensions == InitMain /\ [][NextExtensions]_vars

TypeOK ==
    /\ month \in Months
    /\ ops \in 0..(MaxOps + MaxRepeat)
    /\ \A k \in DOMAIN sync_stats : sync_stats[k] >= 0


\* ---------------------------------------------------------------- claims
Called == last.op # "none"
SyncFileCalled == last.op = "sync_file"
Entries == {last.log[i] : i \in DOMAIN last.log}

\* No I/O step of the last call raised.
NoIoFailure ==
    /\ ~last.rfailed
    /\ \A e \in Entries : ~e.cfailed /\ ~e.bfailed

\* The counters other than those of ks are what they were before the call.
SameExcept(ks) ==
    \A k \in DOMAIN sync_stats \ ks : sync_stats[k] = last.stats0[k]

\* How many paths of the last call ended with outcome o.
Count(o) == Cardinality({i \in DOMAIN last.log : last.log[i].outcome = o})

\* A session of main(): one of its entry points ran (lines 580-589).
SessionRan == last.op \in {"sync_all", "create_backups", "initialize"}

\* C1 -- Dry-run equivalence: started from the same filesystem, with the same
\* configuration and the same direction chosen by the caller, the dry-run
\* session and the live session give every path the same Outcome and end
\* with the same statistics.  Stated for the sessions in which no I/O step of
\* the live run failed, where the two can be expected to agree.
C1_DryRunEquivalence ==
    (SessionRan /\ NoIoFailure) =>
        /\ twin.log = last.log
        /\ twin.stats = sync_stats

\* C8 -- A pair absent on both sides: _sync_file changes no counter and
\* nothing of the filesystem, whatever the direction.
C8_BothAbsentNoOp ==
    (SyncFileCalled
        /\ ~Exists(last.fs0.local[last.path])
        /\ ~Exists(last.fs0.nas[last.path])) =>
        /\ sync_stats = last.stats0
        /\ fs = last.fs0
        /\ ~last.ret

C8_Witness ==
    /\ SyncFileCalled
    /\ last.direction = "upload"
    /\ ~dry_run
    /\ ~Exists(last.fs0.local[last.path])
    /\ ~Exists(last.fs0.nas[last.path])
    /\ \E q \in Paths : Exists(last.fs0.local[q])

\* C9 -- In dry-run mode no call changes the filesystem: no directory, no
\* file of either tree, no file of the archive.
C9_DryRunNoMutation ==
    (Called /\ dry_run) => fs = last.fs0

\* A dry run of sync_all that counts an upload and a backup and would have
\* had the NAS group directory to create or a file to overwrite.
C9_Witness ==
    /\ dry_run
    /\ last.op = "sync_all"
    /\ sync_stats.uploaded > 0
    /\ sync_stats.downloaded > 0
    /\ sync_stats.backed_up > 0
    /\ fs = last.fs0

\* C10 -- Copy-error isolation in a tree reconciliation: every path of the
\* union is reconciled, once and in sorted order, whether or not a copy
\* failed; a path whose copy failed ends "error"; errors grows by the number
\* of such paths and uploaded and downloaded only by the copies that ended.
C10_CopyErrorIsolation ==
    (last.op = "sync_directory") =>
        /\ [i \in DOMAIN last.log |-> last.log[i].path]
             = Sorted(LocalFiles(last.fs0) \cup NasFiles(last.fs0))
        /\ \A e \in Entries : e.cfailed => e.outcome = "error"
        /\ \A e \in Entries : e.outcome = "error" => e.cfailed
        /\ sync_stats.errors = last.stats0.errors + Count("error")
        /\ sync_stats.uploaded = last.stats0.uploaded + Count("uploaded")
        /\ sync_stats.downloaded = last.stats0.downloaded + Count("downloaded")

\* The copy of the first path failed and the second path was still copied.
C10_Witness ==
    /\ last.op = "sync_directory"
    /\ Len(last.log) >= 2
    /\ last.log[1].cfailed
    /\ last.log[2].outcome \in {"uploaded", "downloaded"}
    /\ sync_stats.errors = 1


\* The path of the last _sync_file call and what was there before it.
LocalBefore == last.fs0.local[last.path]
NasBefore == last.fs0.nas[last.path]
Outcome == last.log[1].outcome

\* The forced direction does not ask for a copy from an absent side.
SourcePresent ==
    \/ last.direction = "auto"
    \/ last.direction = "upload" /\ Exists(LocalBefore)
    \/ last.direction = "download" /\ Exists(NasBefore)

\* C5 as stated -- exactly one side absent: Upload when the remote is absent,
\* Download when the local is absent, and that counter alone grows by 1.
\* Read in the claim's favour: a direction forced from the absent side is
\* left out, so that what refutes it is the code's handling of a failed copy.
C5_OneSideAbsent_Stated ==
    (SyncFileCalled /\ (Exists(LocalBefore) # Exists(NasBefore))
        /\ SourcePresent) =>
        IF ~Exists(NasBefore)
        THEN Outcome = "uploaded" /\ sync_stats = Inc(last.stats0, "uploaded")
        ELSE Outcome = "downloaded" /\ sync_stats = Inc(last.stats0, "downloaded")

\* C5 -- exactly one side absent, the direction Auto or forced from the side
\* that is present, and the copy not failing: Upload when the remote is
\* absent, Download when the local is absent, and that counter alone grows
\* by exactly 1.
C5_OneSideAbsent ==
    (SyncFileCalled /\ (Exists(LocalBefore) # Exists(NasBefore))
        /\ SourcePresent /\ ~last.log[1].cfailed) =>
        IF ~Exists(NasBefore)
        THEN Outcome = "uploaded" /\ sync_stats = Inc(last.stats0, "uploaded")
        ELSE Outcome = "downloaded" /\ sync_stats = Inc(last.stats0, "downloaded")

\* A live Auto call on a file only the NAS has: downloaded.
C5_Witness ==
    /\ SyncFileCalled /\ ~dry_run
    /\ last.direction = "auto"
    /\ ~Exists(LocalBefore) /\ Exists(NasBefore)
    /\ Outcome = "downloaded"
    /\ fs.local[last.path] = NasBefore

\* C6 as stated -- both sides present with different mtimes: the strictly
\* newer side wins, and after a live call the older side holds the newer
\* side's content and mtime.
C6_NewerWins_Stated ==
    (SyncFileCalled /\ Exists(LocalBefore) /\ Exists(NasBefore)
        /\ LocalBefore.mtime # NasBefore.mtime) =>
        IF LocalBefore.mtime > NasBefore.mtime
        THEN /\ Outcome = "uploaded"
             /\ ~dry_run => fs.nas[last.path] = LocalBefore
        ELSE /\ Outcome = "downloaded"
             /\ ~dry_run => fs.local[last.path] = NasBefore

\* C6 -- both sides present with different mtimes, the direction Auto and
\* the copy not failing: the strictly newer side wins, and after a live call
\* the older side holds the newer side's content and mtime, the newer side
\* being unchanged.
C6_NewerWins ==
    (SyncFileCalled /\ Exists(LocalBefore) /\ Exists(NasBefore)
        /\ LocalBefore.mtime # NasBefore.mtime
        /\ last.direction = "auto" /\ ~last.log[1].cfailed) =>
        IF LocalBefore.mtime > NasBefore.mtime
        THEN /\ Outcome = "uploaded"
             /\ ~dry_run => /\ fs.nas[last.path] = LocalBefore
                            /\ fs.local[last.path] = LocalBefore
        ELSE /\ Outcome = "downloaded"
             /\ ~dry_run => /\ fs.local[last.path] = NasBefore
                            /\ fs.nas[last.path] = NasBefore

C6_Witness ==
    /\ SyncFileCalled /\ ~dry_run
    /\ last.direction = "auto"
    /\ Exists(LocalBefore) /\ Exists(NasBefore)
    /\ NasBefore.mtime > LocalBefore.mtime
    /\ Outcome = "downloaded"
    /\ fs.local[last.path] = NasBefore

\* C7 as stated -- both sides present with equal mtimes: Skipped, the skip
\* counter alone grows by 1, nothing of the filesystem changes.
C7_EqualSkipped_Stated ==
    (SyncFileCalled /\ Exists(LocalBefore) /\ Exists(NasBefore)
        /\ LocalBefore.mtime = NasBefore.mtime) =>
        /\ Outcome = "skipped"
        /\ sync_stats = Inc(last.stats0, "skipped")
        /\ fs = last.fs0

\* C7 -- both sides present with equal mtimes and the direction Auto:
\* Skipped, the skip counter alone grows by exactly 1, neither file's content
\* or mtime changes and no backup is created.
C7_EqualSkipped ==
    (SyncFileCalled /\ Exists(LocalBefore) /\ Exists(NasBefore)
        /\ LocalBefore.mtime = NasBefore.mtime
        /\ last.direction = "auto") =>
        /\ Outcome = "skipped"
        /\ sync_stats = Inc(last.stats0, "skipped")
        /\ fs = last.fs0

\* Equal mtimes over different contents, in a live session that could back
\* up: still skipped.
C7_Witness ==
    /\ SyncFileCalled /\ ~dry_run
    /\ backup_enabled /\ monthly_backups /\ last.emulator = PCSX2
    /\ last.direction = "auto"
    /\ Exists(LocalBefore) /\ Exists(NasBefore)
    /\ LocalBefore.mtime = NasBefore.mtime
    /\ LocalBefore.content # NasBefore.content
    /\ sync_stats.skipped = 1


\* The entries of the last call that ended an upload over an existing NAS
\* file, in a live session, with a group name and backups configured.
OverwritingUploads ==
    {e \in Entries : /\ e.outcome = "uploaded"
                     /\ Exists(last.fs0.nas[e.path])
                     /\ ~dry_run
                     /\ last.emulator # NoEmulator
                     /\ backup_enabled /\ monthly_backups}

\* The backup of path p for the month of the last call, and the version of
\* the NAS file it must hold: the one archived earlier in the month if there
\* is one, else the one the upload found.
BackupOf(p) == fs.backups[last.month][p]
PreOverwrite(p) ==
    IF Exists(last.fs0.backups[last.month][p])
    THEN last.fs0.backups[last.month][p]
    ELSE last.fs0.nas[p]

\* No group name: nothing is archived.
NoGroupNoBackup ==
    (Called /\ last.emulator = NoEmulator) =>
        /\ fs.backups = last.fs0.backups
        /\ fs.bkDirs = last.fs0.bkDirs
        /\ sync_stats.backed_up = last.stats0.backed_up

\* C4 as stated -- once a live upload over an existing NAS file has ended,
\* with a group name and backups configured, the archive holds a backup for
\* (group, month, path) and it is a version the NAS file had before the copy;
\* with no group name nothing is archived.
C4_BackupBeforeUpload_Stated ==
    /\ \A e \in OverwritingUploads :
          Exists(BackupOf(e.path)) /\ BackupOf(e.path) = PreOverwrite(e.path)
    /\ NoGroupNoBackup

\* C4 -- the same, for the uploads whose backup I/O did not fail: a failed
\* backup is caught and the upload goes on without one.
C4_BackupBeforeUpload ==
    /\ \A e \in OverwritingUploads :
          ~e.bfailed =>
              Exists(BackupOf(e.path)) /\ BackupOf(e.path) = PreOverwrite(e.path)
    /\ NoGroupNoBackup

\* A live upload replaced the NAS file and the archive, empty for the path
\* before, now holds the replaced version.
C4_Witness ==
    /\ SyncFileCalled
    /\ \E e \in OverwritingUploads :
          /\ e.backup
          /\ BackupOf(e.path) = NasBefore
          /\ fs.nas[e.path] = LocalBefore
          /\ LocalBefore # NasBefore

\* ---------------------------------------------------------------- repeats
Repeated(op) == prev.op = op /\ last.op = op

AllSkipped ==
    /\ \A e \in Entries : e.outcome = "skipped"
    /\ SameExcept({"skipped"})

\* C2 as stated -- a tree reconciliation run twice in succession: every pair
\* of the second run ends Skipped.
C2_Idempotence_Stated ==
    Repeated("sync_directory") => AllSkipped

\* C2 -- in a live session, a tree reconciliation none of whose copies failed,
\* run again with nothing changed in between: the second run finds the same
\* pairs and ends each Skipped, counting no upload, download, backup or error.
C2_Idempotence ==
    (Repeated("sync_directory") /\ ~dry_run
        /\ \A i \in DOMAIN prev.log : ~prev.log[i].cfailed) =>
        /\ AllSkipped
        /\ Len(last.log) = Len(prev.log)
        /\ sync_stats.skipped = last.stats0.skipped + Len(last.log)

C2_Witness ==
    /\ Repeated("sync_directory") /\ ~dry_run
    /\ Len(prev.log) = 2
    /\ prev.log[1].outcome = "uploaded" /\ prev.log[1].backup
    /\ prev.log[2].outcome = "downloaded"
    /\ Len(last.log) = 2
    /\ AllSkipped

\* Two snapshot calls for the same (group, path) in the same month.
SameSnapshotTwice ==
    /\ Repeated("create_monthly_backup")
    /\ prev.path = last.path
    /\ prev.emulator = last.emulator
    /\ prev.month = last.month

BackupFiles(f) ==
    {mp \in Months \X Paths : Exists(f.backups[mp[1]][mp[2]])}

\* The two calls made one backup file: true then false, the counter up by 1.
OneBackupMade ==
    /\ prev.ret /\ ~last.ret
    /\ sync_stats.backed_up = prev.stats0.backed_up + 1
    /\ BackupFiles(fs) = BackupFiles(prev.fs0) \cup {<<last.month, last.path>>}
    /\ Cardinality(BackupFiles(fs)) = Cardinality(BackupFiles(prev.fs0)) + 1

\* C3 as stated -- for any (group, path), two snapshot calls in the same
\* month make exactly one backup file: true, then false, the counter up by 1.
C3_BackupDedup_Stated ==
    (SameSnapshotTwice /\ last.emulator # NoEmulator) => OneBackupMade

\* C3 -- in a live session with backups and monthly granularity enabled, for
\* a group name and a NAS file that exists and is not yet archived this
\* month, the I/O of the first call not failing: two snapshot calls in the
\* same month make exactly one backup file, a copy of the NAS file; the first
\* returns true, the second false, the counter grows by exactly 1.
C3_BackupDedup ==
    (SameSnapshotTwice /\ last.emulator # NoEmulator
        /\ ~dry_run /\ backup_enabled /\ monthly_backups
        /\ Exists(prev.fs0.nas[prev.path])
        /\ ~Exists(prev.fs0.backups[prev.month][prev.path])
        /\ ~prev.log[1].bfailed) =>
        /\ OneBackupMade
        /\ fs.backups[last.month][last.path] = prev.fs0.nas[prev.path]

C3_Witness ==
    /\ SameSnapshotTwice /\ last.emulator # NoEmulator
    /\ ~dry_run
    /\ prev.ret /\ ~last.ret
    /\ last.month = MaxMonth
    /\ sync_stats.backed_up = 1


\* ------------------------------------------------------------ configuration
\* A required field is missing: the remote root, the group table, or the
\* local root path of an enabled group.
ConfigIncomplete(cfg) ==
    \/ ~cfg.nas_path
    \/ ~cfg.emulators
    \/ cfg.pcsx2 = "nopath"
    \/ cfg.dolphin = "nopath"

\* C11 -- Configuration errors are fatal with no partial execution: a run of
\* main() that syncs all groups from a configuration with a required field
\* missing ends with the exception reported, and before that it has
\* reconciled no file of any group: nothing of the filesystem and no counter
\* has changed.
C11_ConfigErrorsFatal ==
    (last.op = "main" /\ last.mode = "all" /\ ConfigIncomplete(last.config)) =>
        /\ last.log = <<>>
        /\ fs.local = last.fs0.local
        /\ fs.nas = last.fs0.nas
        /\ sync_stats = last.stats0


\* ---------------------------------------------------------------- filter
\* The extension of path p equals some entry of the allow-list, ignoring
\* letter case.
InAllowList(p, extensions) ==
    \E e \in extensions.list : Lower(Suffix(RelPath(p))) = Lower(e)

\* C12 -- Extension filter: a tree reconciliation with an allow-list
\* reconciles exactly the files of either tree whose extension equals some
\* entry of the list ignoring letter case; a file outside the list that only
\* one side has gets no Outcome, is not copied and changes no counter.
C12_ExtensionFilter ==
    (last.op = "sync_directory(extensions)") =>
        /\ {e.path : e \in Entries}
             = {p \in LocalFiles(last.fs0) \cup NasFiles(last.fs0) :
                    InAllowList(p, last.extensions)}
        /\ \A p \in Paths :
              (~InAllowList(p, last.extensions)
                  /\ Exists(last.fs0.local[p]) # Exists(last.fs0.nas[p])) =>
                  /\ p \notin {e.path : e \in Entries}
                  /\ fs.local[p] = last.fs0.local[p]
                  /\ fs.nas[p] = last.fs0.nas[p]
        /\ sync_stats.uploaded + sync_stats.downloaded + sync_stats.skipped
             + sync_stats.errors = Len(last.log)


\* -------------------------------------------------------------- snapshotter
SnapshotCalled == last.op = "create_monthly_backup"

\* One of the four conditions of lines 95-103 under which no backup is made.
SnapshotOff ==
    \/ ~backup_enabled
    \/ ~monthly_backups
    \/ ~Exists(last.fs0.nas[last.path])
    \/ last.emulator = NoEmulator

\* C13 -- _create_monthly_backup returns false, creates no file or directory
\* and leaves every counter unchanged whenever backups are not enabled,
\* monthly granularity is not enabled, the source file does not exist, or
\* the group name is empty; and no call of any method counts a backup under
\* one of these conditions.
C13_SnapshotNoOp ==
    /\ (SnapshotCalled /\ SnapshotOff) =>
            /\ ~last.ret
            /\ fs = last.fs0
            /\ sync_stats = last.stats0
    /\ (Called /\ (~backup_enabled \/ ~monthly_backups
                       \/ last.emulator = NoEmulator)) =>
            /\ \A e \in Entries : ~e.backup
            /\ fs.backups = last.fs0.backups
            /\ sync_stats.backed_up = last.stats0.backed_up

\* A live call with backups enabled, for a NAS file that exists and is not
\* archived yet, and no group name: nothing is made.
C13_Witness ==
    /\ SnapshotCalled /\ ~dry_run
    /\ backup_enabled /\ monthly_backups
    /\ Exists(last.fs0.nas[last.path])
    /\ ~Exists(last.fs0.backups[last.month][last.path])
    /\ last.emulator = NoEmulator
    /\ ~last.ret
    /\ fs = last.fs0


\* ------------------------------------------------------------------ probes
\* The pairs of the last tree reconciliation whose modification-time lookup
\* fails: both files exist, so lines 167-168 are reached, and stat() raises.
ProbeFailed ==
    {p \in last.pf : Exists(last.fs0.local[p]) /\ Exists(last.fs0.nas[p])}

\* C14 -- Probe errors: in a tree reconciliation, a pair whose
\* modification-time lookup fails with an I/O error other than not-found
\* ends "error" and adds 1 to the error counter, and the walk goes on: every
\* path of the union is reconciled, in order, and no exception leaves the
\* walk.
C14_ProbeErrors ==
    (last.op = "sync_directory") =>
        /\ [i \in DOMAIN last.log |-> last.log[i].path]
             = Sorted(AllFiles(last.fs0, None))
        /\ \A e \in Entries : e.path \in ProbeFailed => e.outcome = "error"
        /\ sync_stats.errors >= last.stats0.errors + Cardinality(ProbeFailed)
        /\ last.raised = ""


\* ---------------------------------------------------------- backup failures
\* The backup's I/O raised during the upload of the last _sync_file call.
BackupFailed == SyncFileCalled /\ last.log[1].bfailed

\* The failure was caught and nothing was archived or counted for it.
BackupSkipped ==
    /\ ~last.log[1].backup
    /\ fs.backups = last.fs0.backups
    /\ sync_stats.backed_up = last.stats0.backed_up

DirAgainstFile ==
    /\ SyncFileCalled
    /\ \/ IsDir(LocalBefore) /\ IsFile(NasBefore)
       \/ IsFile(LocalBefore) /\ IsDir(NasBefore)

\* C16 -- A side is present only when a regular file exists there: with a
\* directory on one side and a regular file on the other, _sync_file in
\* direction Auto treats the directory side as absent, so the direction is
\* the one from the regular file, whatever the mtimes, and it never copies
\* into the directory or archives it.
C16_DirectoryIsAbsent ==
    (DirAgainstFile /\ last.direction = "auto") =>
        /\ Outcome # "skipped"
        /\ IsDir(NasBefore) => Outcome # "downloaded" /\ fs.nas[last.path] = NasBefore
        /\ IsDir(LocalBefore) =>
              Outcome # "uploaded" /\ fs.local[last.path] = LocalBefore
        /\ fs.backups = last.fs0.backups


\* --------------------------------------------------------------- statistics
Outcomes == {"uploaded", "downloaded", "skipped", "errors"}

OutcomeSum(st) == st.uploaded + st.downloaded + st.skipped + st.errors

\* Exactly the counter k of the four grew, by 1.
OnlyGrew(k) ==
    \A j \in Outcomes :
        sync_stats[j] = last.stats0[j] + (IF j = k THEN 1 ELSE 0)

\* C17 -- Statistics accounting: every counter is non-negative and no call
\* decreases one; each pair a tree reconciliation has to reconcile adds 1 to
\* exactly one of uploaded, downloaded, skipped and errors, so that the tree
\* reconciliation adds the size of the union of relative paths to their sum;
\* a tree reconciliation of a single pair adds 1 to exactly one of them.
C17_StatsAccounting ==
    /\ \A k \in DOMAIN sync_stats : sync_stats[k] >= 0
    /\ Called => \A k \in DOMAIN sync_stats : sync_stats[k] >= last.stats0[k]
    /\ (last.op = "sync_directory"
          /\ Cardinality(AllFiles(last.fs0, None)) = 1) =>
            \E k \in Outcomes : OnlyGrew(k)
    /\ (last.op = "sync_directory") =>
            /\ OutcomeSum(sync_stats)
                 = OutcomeSum(last.stats0)
                   + Cardinality(LocalFiles(last.fs0) \cup NasFiles(last.fs0))
            /\ Len(last.log)
                 = Cardinality(LocalFiles(last.fs0) \cup NasFiles(last.fs0))


\* -------------------------------------------------------------------- order
\* The paths of the last call in the order they were reconciled.
Reconciled == [i \in DOMAIN last.log |-> last.log[i].path]

TreeWalked == last.op \in {"sync_directory", "initialize"}

\* C18 as stated -- the union is processed in the lexicographic order of the
\* relative paths, taken as the strings they are written as: of any two
\* paths of the union, the one whose string is smaller is reconciled first.
C18_LexicographicOrder_Stated ==
    TreeWalked =>
        \A i, j \in DOMAIN last.log :
            i < j => StrLess(Str(RelPath(Reconciled[i])), Str(RelPath(Reconciled[j])))

\* C18 -- the union is processed in the order of the relative paths compared
\* component by component, each component as a string, whatever the order of
\* enumeration: each path of the union once, and of any two the one that is
\* smaller in this order first.  a/b.ps2 comes before a-b.PS2.
C18_LexicographicOrder ==
    TreeWalked =>
        /\ \A i, j \in DOMAIN last.log :
              i < j => PathLess(RelPath(Reconciled[i]), RelPath(Reconciled[j]))
        /\ last.op = "sync_directory" =>
              {Reconciled[i] : i \in DOMAIN last.log}
                = LocalFiles(last.fs0) \cup NasFiles(last.fs0)

\* Both a/b.ps2 and a-b.PS2 were reconciled, a/b.ps2 first, from one tree
\* each.
C18_Witness ==
    /\ last.op = "sync_directory"
    /\ Reconciled = <<1, 2>>
    /\ LocalFiles(last.fs0) = {2}
    /\ NasFiles(last.fs0) = {1}
    /\ StrLess(Str(RelPath(2)), Str(RelPath(1)))


\* ------------------------------------------------------------ missing roots
TreeReconciled == last.op = "sync_directory"

\* The roots the last tree reconciliation found missing.
NasRootMissing == TreeReconciled /\ ~last.fs0.nasDir
LocalRootMissing == TreeReconciled /\ ~last.fs0.localDir

\* Every file of the side that has its root went to the other side: one
\* entry each, with the outcome of that direction, and in a live run the
\* other root created and the file copied, content and mtime.
AllUploaded ==
    /\ {e.path : e \in Entries} = LocalFiles(last.fs0)
    /\ \A e \in Entries : e.outcome = "uploaded"
    /\ (~dry_run /\ Entries # {}) => fs.nasDir /\ fs.nasRoot
    /\ ~dry_run => \A p \in LocalFiles(last.fs0) : fs.nas[p] = last.fs0.local[p]

AllDownloaded ==
    /\ {e.path : e \in Entries} = NasFiles(last.fs0)
    /\ \A e \in Entries : e.outcome = "downloaded"
    /\ (~dry_run /\ Entries # {}) => fs.localDir
    /\ ~dry_run => \A p \in NasFiles(last.fs0) : fs.local[p] = last.fs0.nas[p]

\* C19 as stated -- a missing root contributes an empty set and is not an
\* error: with the remote root missing every local file is uploaded, with
\* the local root missing every remote file is downloaded, with both missing
\* nothing happens, and the error counter is unchanged in all three cases.
C19_MissingRoot_Stated ==
    /\ (NasRootMissing /\ ~LocalRootMissing) => AllUploaded
    /\ (LocalRootMissing /\ ~NasRootMissing) => AllDownloaded
    /\ (NasRootMissing /\ LocalRootMissing) =>
            last.log = <<>> /\ fs = last.fs0 /\ sync_stats = last.stats0
    /\ (NasRootMissing \/ LocalRootMissing) =>
            sync_stats.errors = last.stats0.errors

\* C19 -- a missing root contributes an empty set and is not an error in
\* itself: with one root missing, every file of the other side is reconciled
\* toward the missing side, uploaded or downloaded when its copy ends (the
\* missing directories created) and counted as one error when its copy
\* fails; the error counter grows by the number of failed copies only; with
\* both roots missing nothing happens.
C19_MissingRoot ==
    /\ (NasRootMissing /\ ~LocalRootMissing /\ NoIoFailure) => AllUploaded
    /\ (LocalRootMissing /\ ~NasRootMissing /\ NoIoFailure) => AllDownloaded
    /\ (NasRootMissing /\ ~LocalRootMissing) =>
            /\ {e.path : e \in Entries} = LocalFiles(last.fs0)
            /\ \A e \in Entries :
                  e.outcome = IF e.cfailed THEN "error" ELSE "uploaded"
    /\ (LocalRootMissing /\ ~NasRootMissing) =>
            /\ {e.path : e \in Entries} = NasFiles(last.fs0)
            /\ \A e \in Entries :
                  e.outcome = IF e.cfailed THEN "error" ELSE "downloaded"
    /\ (NasRootMissing /\ LocalRootMissing) =>
            last.log = <<>> /\ fs = last.fs0 /\ sync_stats = last.stats0
    /\ (NasRootMissing \/ LocalRootMissing) =>
            sync_stats.errors
              = last.stats0.errors + Cardinality({e \in Entries : e.cfailed})

\* A live run that found no NAS group directory and two local files: the
\* directory is there now, with both files.
C19_Witness ==
    /\ NasRootMissing /\ ~dry_run
    /\ ~last.fs0.nasRoot
    /\ Cardinality(LocalFiles(last.fs0)) = 2
    /\ AllUploaded
    /\ fs.nasDir
    /\ sync_stats.uploaded = 2 /\ sync_stats.errors = 0


\* -------------------------------------------------------------- convergence
\* A live tree reconciliation in direction Auto none of whose I/O failed.
LiveTreeReconciled == TreeReconciled /\ ~dry_run /\ NoIoFailure

\* Both trees enumerate the same relative paths.
SamePaths == LocalFiles(fs) = NasFiles(fs)

\* C20 as stated -- after a live Auto tree reconciliation in which no I/O
\* operation fails, both roots hold the same set of enumerated relative
\* paths, and for each path both sides have the same content and the same
\* modification time.
C20_Convergence_Stated ==
    LiveTreeReconciled =>
        /\ SamePaths
        /\ \A p \in LocalFiles(fs) :
              /\ fs.local[p].content = fs.nas[p].content
              /\ fs.local[p].mtime = fs.nas[p].mtime

\* C20 -- after a live Auto tree reconciliation in which no I/O operation
\* fails, both roots hold the same set of enumerated relative paths, the set
\* of the union before it, and for each path both sides have the same
\* modification time; they have the same content at every path that was
\* copied, and a path whose two files differ in content is one that both
\* sides held with equal modification times and that was skipped, both
\* files left as they were.
C20_Convergence ==
    LiveTreeReconciled =>
        /\ SamePaths
        /\ LocalFiles(fs) = LocalFiles(last.fs0) \cup NasFiles(last.fs0)
        /\ \A p \in LocalFiles(fs) : fs.local[p].mtime = fs.nas[p].mtime
        /\ \A e \in Entries :
              /\ e.outcome \in {"uploaded", "downloaded"} =>
                    fs.local[e.path] = fs.nas[e.path]
              /\ fs.local[e.path].content # fs.nas[e.path].content =>
                    /\ e.outcome = "skipped"
                    /\ fs.local[e.path] = last.fs0.local[e.path]
                    /\ fs.nas[e.path] = last.fs0.nas[e.path]
                    /\ last.fs0.local[e.path].mtime = last.fs0.nas[e.path].mtime

\* One file went up and one came down, over an older version each time, and
\* the two trees are the same now.
C20_Witness ==
    /\ LiveTreeReconciled
    /\ Count("uploaded") = 1 /\ Count("downloaded") = 1
    /\ \A p \in Paths : Exists(last.fs0.local[p]) /\ Exists(last.fs0.nas[p])
    /\ fs.local = fs.nas
    /\ fs.local # last.fs0.local
    /\ fs.nas # last.fs0.nas

\* The initializer ran and forced a direction the user chose: both trees
\* held a file before the call (line 495) and the answer was '1' or '2'.
ForcedOverBoth ==
    /\ last.op = "initialize"
    /\ last.direction \in {"upload", "download"}
    /\ LocalFiles(last.fs0) # {}
    /\ NasFiles(last.fs0) # {}

\* The path existed on one side only when the initializer started.
OnlyLocal(p) == Exists(last.fs0.local[p]) /\ ~Exists(last.fs0.nas[p])
OnlyNas(p) == Exists(last.fs0.nas[p]) /\ ~Exists(last.fs0.local[p])

\* C21 -- Forced direction over the union: when the initializer forces
\* Upload or Download for a group whose two trees are both populated, a file
\* present only locally under forced Download, or only remotely under forced
\* Upload, is not counted as an error in a live run and not counted as
\* downloaded (or uploaded) in a dry run: no copy is attempted from the
\* absent source.
C21_ForcedDirectionUnion ==
    ForcedOverBoth =>
        \A e \in Entries :
            /\ (last.direction = "download" /\ OnlyLocal(e.path)) =>
                  IF dry_run THEN e.outcome # "downloaded"
                  ELSE e.outcome # "error"
            /\ (last.direction = "upload" /\ OnlyNas(e.path)) =>
                  IF dry_run THEN e.outcome # "uploaded"
                  ELSE e.outcome # "error"

\* C22 -- Backups are write-once: once a backup file exists for a (group,
\* year-month, relative path) triple, no reconcile, tree reconcile,
\* create_backups or initializer changes or replaces it, so it keeps the
\* version snapshotted first in that month.
C22_BackupWriteOnce ==
    [][\A mp \in BackupFiles(fs) :
          fs'.backups[mp[1]][mp[2]] = fs.backups[mp[1]][mp[2]]]_vars

\* A live call, with backups on, replaced a NAS file of the group whose
\* backup of the month existed already, and the backup is what it was.
C22_Witness ==
    /\ last.op \in {"sync_file", "sync_directory", "sync_all", "initialize"}
    /\ last.emulator = PCSX2
    /\ ~dry_run /\ backup_enabled /\ monthly_backups
    /\ \E p \in Paths :
          /\ <<month, p>> \in BackupFiles(last.fs0)
          /\ Exists(last.fs0.nas[p])
          /\ fs.nas[p] # last.fs0.nas[p]
          /\ fs.backups[month][p] = last.fs0.backups[month][p]
          /\ fs.backups[month][p] # last.fs0.nas[p]

\* The last call was _sync_file on a pair and took the branch d of lines
\* 179-203: the forced direction, or the one lines 161-177 resolved.
Took(d) ==
    /\ SyncFileCalled
    /\ Outcome # "none"
    /\ ResolveDirection(last.fs0, last.path, last.direction) = d

\* The NAS side is what it was before the call: the files of the tree, the
\* archive and the directories.
RemoteUnchanged ==
    /\ fs.nas = last.fs0.nas
    /\ fs.backups = last.fs0.backups
    /\ fs.nasRoot = last.fs0.nasRoot
    /\ fs.nasDir = last.fs0.nasDir
    /\ fs.bkDirs = last.fs0.bkDirs

\* C23 -- Direction frame: a Download leaves the whole remote side unchanged
\* (the remote file, every other remote file and the backup archive), never
\* invokes the Snapshotter and does not change the backup counter; an Upload
\* leaves every local file unchanged.
C23_DirectionFrame ==
    /\ Took("download") =>
          /\ RemoteUnchanged
          /\ ~last.log[1].backup /\ ~last.log[1].bfailed
          /\ sync_stats.backed_up = last.stats0.backed_up
    /\ Took("upload") => fs.local = last.fs0.local

\* A live download, with backups on and a group given, replaced the local
\* file from a NAS file that has no backup of the month yet.
C23_Witness ==
    /\ Took("download")
    /\ Outcome = "downloaded"
    /\ ~dry_run /\ backup_enabled /\ monthly_backups
    /\ last.emulator = PCSX2
    /\ Exists(LocalBefore)
    /\ fs.local[last.path] # LocalBefore
    /\ ~Exists(fs.backups[month][last.path])

====
